---- MODULE Spec2Model ----
(***************************************************************************)
(* Verification model of icon_font_to_png/icon_font.py (class IconFont).   *)
(*                                                                         *)
(* Strings are sequences of one-character strings.  A stylesheet is the    *)
(* sequence of rules tinycss yields; a rule has a selector (the text of    *)
(* rule.selector.as_css()) and a sequence of declarations.  A dict is an   *)
(* insertion-ordered sequence of <<key, value>> pairs with unique keys     *)
(* (the dict of Python 3.7 and later).  A character produced by unichr is  *)
(* identified with its code point.                                         *)
(*                                                                         *)
(* Line 95 of the source is a line of prose left after the docstring of    *)
(* scale_font; the model reads the statements of the method bodies as they *)
(* are written.  Division is the true division of Python 3.                *)
(***************************************************************************)
EXTENDS Integers, Sequences, FiniteSets, TLC

VARIABLES css_file, ttf_file, keep_prefix, css_icons, common_prefix, obj,
          fs, call,
          pc, size, scale, font, width, height, iteration, factor, measured

objvars   == <<css_file, ttf_file, keep_prefix, css_icons, common_prefix, obj>>
callvars  == <<fs, call>>
scalevars == <<pc, size, scale, font, width, height, iteration, factor, measured>>
vars      == <<objvars, callvars, scalevars>>

None == "None"

Max(S) == CHOOSE x \in S : \A y \in S : y <= x
Min(S) == CHOOSE x \in S : \A y \in S : x <= y

-----------------------------------------------------------------------------
(* Strings *)

\* Code points of the characters the model uses (Python compares unicode
\* strings code point by code point).
ord(c) ==
  CASE c = "\"" -> 34 [] c = "'" -> 39 [] c = "-" -> 45 [] c = "." -> 46
    [] c = "0" -> 48 [] c = "1" -> 49 [] c = "2" -> 50 [] c = ":" -> 58
    [] c = "\\" -> 92
    [] c = "a" -> 97  [] c = "b" -> 98  [] c = "c" -> 99  [] c = "e" -> 101
    [] c = "f" -> 102 [] c = "g" -> 103 [] c = "h" -> 104 [] c = "i" -> 105
    [] c = "m" -> 109 [] c = "n" -> 110 [] c = "o" -> 111 [] c = "p" -> 112
    [] c = "r" -> 114 [] c = "s" -> 115 [] c = "u" -> 117

\* s[n:] of Python, n >= 0
SliceFrom(s, n) == IF n >= Len(s) THEN <<>> ELSE SubSeq(s, n + 1, Len(s))

\* s[1:-1] of Python
StripEnds(s) == IF Len(s) <= 2 THEN <<>> ELSE SubSeq(s, 2, Len(s) - 1)

\* s < t for Python strings
StrLess(s, t) ==
  \E i \in 1..(Len(s) + 1) :
     /\ i <= Len(t)
     /\ \A j \in 1..(i - 1) : s[j] = t[j]
     /\ (i = Len(s) + 1 \/ ord(s[i]) < ord(t[i]))

\* t occurs in s starting at position i (1-based)
OccursAt(s, t, i) ==
  /\ i >= 1
  /\ i + Len(t) - 1 <= Len(s)
  /\ SubSeq(s, i, i + Len(t) - 1) = t

\* os.path.commonprefix((a, b))
commonprefix(a, b) ==
  LET n == IF Len(a) < Len(b) THEN Len(a) ELSE Len(b)
      k == Max({i \in 0..n : \A j \in 1..i : a[j] = b[j]})
  IN  SubSeq(a, 1, k)

-----------------------------------------------------------------------------
(* load_css *)

Before == <<":", "b", "e", "f", "o", "r", "e">>

\* Start positions of ":before" after the leading character of a selector.
BeforeAt(selector) == {k \in 2..Len(selector) : OccursAt(selector, Before, k)}

\* is_icon.match(selector) with is_icon = re.compile("\.(.*):before,?"):
\* the match is anchored at the first character.
is_icon_match(selector) ==
  /\ Len(selector) >= 1
  /\ selector[1] = "."
  /\ BeforeAt(selector) # {}

\* The names is_icon.finditer(selector) yields for a selector that
\* is_icon.match accepts: the first match starts at the leading "." and the
\* greedy (.*) runs to the LAST ":before", after which no ":before" is left,
\* so there is exactly one match.
is_icon_finditer(selector) ==
  <<SubSeq(selector, 2, Max(BeforeAt(selector)) - 1)>>

IsQuote(c) == c = "'" \/ c = "\""

\* re.match("^['\"].*['\"]$", val)
QuotedMatch(val) == Len(val) >= 2 /\ IsQuote(val[1]) /\ IsQuote(val[Len(val)])

HexDigits == {"0", "1", "2", "a", "b", "c", "e", "f"}

HexDigit(c) ==
  CASE c = "0" -> 0 [] c = "1" -> 1 [] c = "2" -> 2
    [] c = "a" -> 10 [] c = "b" -> 11 [] c = "c" -> 12
    [] c = "e" -> 14 [] c = "f" -> 15

RECURSIVE HexValue(_)
HexValue(s) ==
  IF s = <<>> THEN 0
  ELSE 16 * HexValue(SubSeq(s, 1, Len(s) - 1)) + HexDigit(s[Len(s)])

\* int(s, 16) raises ValueError on these
HexInvalid(s) == s = <<>> \/ \E i \in 1..Len(s) : s[i] \notin HexDigits

\* lines 58-62: the text handed to int(.., 16) for a content value
ContentHex(val) ==
  LET v == IF QuotedMatch(val) THEN StripEnds(val) ELSE val
  IN  SliceFrom(v, 1)

\* dict operations
DictKeys(d) == {d[i][1] : i \in 1..Len(d)}

DictGet(d, k) == LET i == CHOOSE j \in 1..Len(d) : d[j][1] = k IN d[i][2]

DictSet(d, k, v) ==
  IF k \in DictKeys(d)
  THEN [i \in 1..Len(d) |-> IF d[i][1] = k THEN <<k, v>> ELSE d[i]]
  ELSE Append(d, <<k, v>>)

\* lines 56-62 for one name: every "content" declaration of the rule, in
\* order, stores icons[name]; a value int() rejects raises ValueError.
RECURSIVE StoreDeclarations(_, _, _)
StoreDeclarations(st, name, decls) ==
  IF decls = <<>> \/ st.err # None THEN st
  ELSE LET d == Head(decls) IN
       IF d.name # "content"
       THEN StoreDeclarations(st, name, Tail(decls))
       ELSE IF HexInvalid(ContentHex(d.value))
            THEN [st EXCEPT !.err = "ValueError"]
            ELSE StoreDeclarations(
                   [st EXCEPT !.icons =
                       DictSet(st.icons, name, HexValue(ContentHex(d.value)))],
                   name, Tail(decls))

RECURSIVE StoreNames(_, _, _)
StoreNames(st, names, decls) ==
  IF names = <<>> THEN st
  ELSE StoreNames(StoreDeclarations(st, Head(names), decls), Tail(names), decls)

\* lines 40-62: the loop over stylesheet.rules
RECURSIVE ScanRules(_, _)
ScanRules(st, rules) ==
  IF rules = <<>> \/ st.err # None THEN st
  ELSE LET rule == Head(rules)
           selector == rule.selector
       IN  IF ~is_icon_match(selector)
           THEN ScanRules(st, Tail(rules))
           ELSE LET cp == IF st.common_prefix = None
                          THEN SliceFrom(selector, 1)
                          ELSE commonprefix(st.common_prefix,
                                            SliceFrom(selector, 1))
                    st1 == [st EXCEPT !.common_prefix = cp]
                IN  ScanRules(StoreNames(st1, is_icon_finditer(selector),
                                         rule.declarations),
                              Tail(rules))

\* Variant of RemovePrefix that keeps the last character of the prefix.
RECURSIVE RemovePrefix_short(_, _, _)
RemovePrefix_short(icons, n, acc) ==
  IF icons = <<>> THEN acc
  ELSE RemovePrefix_short(Tail(icons), n,
                          DictSet(acc, SliceFrom(Head(icons)[1], n - 1),
                                  Head(icons)[2]))

\* lines 68-71: rewrite every key without the common prefix
RECURSIVE RemovePrefix(_, _, _)
RemovePrefix(icons, n, acc) ==
  IF icons = <<>> THEN acc
  ELSE RemovePrefix(Tail(icons), n,
                    DictSet(acc, SliceFrom(Head(icons)[1], n), Head(icons)[2]))

\* sorted(items, key=lambda t: t[0]): a stable sort by key
RECURSIVE InsertSorted(_, _)
InsertSorted(sorted, item) ==
  IF sorted = <<>> THEN <<item>>
  ELSE IF StrLess(item[1], Head(sorted)[1])
       THEN <<item>> \o sorted
       ELSE <<Head(sorted)>> \o InsertSorted(Tail(sorted), item)

RECURSIVE SortItems(_)
SortItems(items) ==
  IF items = <<>> THEN <<>>
  ELSE InsertSorted(SortItems(SubSeq(items, 1, Len(items) - 1)),
                    items[Len(items)])

\* load_css: [err, icons, common_prefix]
load_css(stylesheet, keep) ==
  LET st == ScanRules([err |-> None, icons |-> <<>>, common_prefix |-> None],
                      stylesheet)
      prefix == IF st.common_prefix = None THEN <<>> ELSE st.common_prefix
      icons == IF ~keep /\ Len(prefix) > 0
               THEN RemovePrefix(st.icons, Len(prefix), <<>>)
               ELSE st.icons
  IN  IF st.err # None
      THEN [err |-> st.err, icons |-> None, common_prefix |-> None]
      ELSE [err |-> None, icons |-> SortItems(icons), common_prefix |-> prefix]

-----------------------------------------------------------------------------
(* Stylesheets the model constructs IconFont objects from *)

MaxRules == 2

IconNames ==
  { <<>>, <<"a">>, <<"b">>, <<"a", "b">>, <<"a", "a", "b">>, <<"a", ":">> }

\* "\f1" (quoted), \f2 (bare), "\g" (not hexadecimal)
ContentF1  == <<"\"", "\\", "f", "1", "\"">>
ContentF2  == <<"\\", "f", "2">>
ContentBad == <<"'", "\\", "g", "'">>

DeclarationLists ==
  { <<>>,
    <<[name |-> "content", value |-> ContentF1]>>,
    <<[name |-> "color", value |-> <<"a">>],
      [name |-> "content", value |-> ContentF2]>>,
    <<[name |-> "content", value |-> ContentBad]>> }

IconSelector(name) == <<".">> \o name \o Before

\* selectors that are not icon rules: ".a" and "a.b:before"
OtherSelectors == { <<".", "a">>, <<"a", ".", "b">> \o Before }

Rules ==
  [selector : {IconSelector(n) : n \in IconNames} \cup OtherSelectors,
   declarations : DeclarationLists]

\* .icon-home:before { content: "\f1" }  .icon-user:before { content: \f2 }
IconHome == <<"i", "c", "o", "n", "-", "h", "o", "m", "e">>
IconUser == <<"i", "c", "o", "n", "-", "u", "s", "e", "r">>
ExampleSheet ==
  << [selector |-> IconSelector(IconHome),
      declarations |-> <<[name |-> "content", value |-> ContentF1]>>],
     [selector |-> IconSelector(IconUser),
      declarations |-> <<[name |-> "content", value |-> ContentF2]>>] >>

Stylesheets ==
  UNION {[1..n -> Rules] : n \in 0..MaxRules} \cup {ExampleSheet}

\* A font file, as far as the model looks into it: the code points whose
\* glyph has visible ink.
AllInk   == {241, 242}
BlankF2  == {241}
Fonts    == {AllInk, BlankF2}

-----------------------------------------------------------------------------
(* Construction *)

\* a file system: the directories and the image files that exist
NoFiles == [dirs |-> {}, files |-> {}]

\* values of the variables a specification does not use
IdleCall  == [op |-> None]
IdleScale ==
  /\ pc = "idle" /\ size = 0 /\ scale = None /\ font = None
  /\ width = 0 /\ height = 0 /\ iteration = 0 /\ factor = 0
  /\ measured = <<>>

\* IconFont.__init__: lines 20-24
IconFont_init ==
  /\ obj = "new"
  /\ LET r == load_css(css_file, keep_prefix) IN
       IF r.err # None
       THEN /\ obj' = "raised"
            /\ UNCHANGED <<css_icons, common_prefix>>
       ELSE /\ obj' = "constructed"
            /\ css_icons' = r.icons
            /\ common_prefix' = r.common_prefix
  /\ UNCHANGED <<css_file, ttf_file, keep_prefix, callvars, scalevars>>

CssInit ==
  /\ css_file \in Stylesheets
  /\ ttf_file = AllInk
  /\ keep_prefix \in BOOLEAN
  /\ css_icons = None
  /\ common_prefix = None
  /\ obj = "new"
  /\ fs = NoFiles
  /\ call = IdleCall
  /\ IdleScale

CssNext == IconFont_init

CssSpec == CssInit /\ [][CssNext]_vars

-----------------------------------------------------------------------------
(* Properties of load_css *)

IconRuleIndexes(sheet) == {i \in 1..Len(sheet) : is_icon_match(sheet[i].selector)}

NameOf(rule) == is_icon_finditer(rule.selector)[1]

HasContent(rule) ==
  \E j \in 1..Len(rule.declarations) : rule.declarations[j].name = "content"

IsSorted(d) == \A i \in 1..(Len(d) - 1) : StrLess(d[i][1], d[i + 1][1])

StartsWith(s, p) == Len(p) <= Len(s) /\ SubSeq(s, 1, Len(p)) = p

\* longest common prefix of a non-empty set of strings
LongestCommonPrefix(S) ==
  LET s0 == CHOOSE s \in S : TRUE
      k == Max({i \in 0..Len(s0) : \A s \in S : StartsWith(s, SubSeq(s0, 1, i))})
  IN  SubSeq(s0, 1, k)

\* C7: a stylesheet with exactly one icon rule '.<name>:before' (carrying a
\* content declaration) gives the common prefix <name>, and with
\* keep_prefix=False a table of exactly one entry whose key is ''.
C7_SingleRulePrefixIsName ==
  (obj = "constructed" /\ Cardinality(IconRuleIndexes(css_file)) = 1) =>
     LET i == CHOOSE j \in IconRuleIndexes(css_file) : TRUE IN
       HasContent(css_file[i]) =>
          /\ common_prefix = NameOf(css_file[i])
          /\ (~keep_prefix => Len(css_icons) = 1 /\ css_icons[1][1] = <<>>)

Permute(sheet, p) == [i \in 1..Len(sheet) |-> sheet[p[i]]]

NoDuplicateNames(sheet) ==
  \A i, j \in IconRuleIndexes(sheet) : i # j => NameOf(sheet[i]) # NameOf(sheet[j])

\* C9: the keys of the table are in ascending lexicographic order whatever
\* the rule order and keep_prefix, and a stylesheet without duplicate names
\* gives the same table under every permutation of its rules.
C9_SortedAndOrderInsensitive ==
  obj = "constructed" =>
     /\ IsSorted(css_icons)
     /\ (/\ NoDuplicateNames(css_file)
         /\ \A i \in IconRuleIndexes(css_file) : HasContent(css_file[i])) =>
          \A p \in Permutations(1..Len(css_file)) :
             load_css(Permute(css_file, p), keep_prefix).icons = css_icons

-----------------------------------------------------------------------------
(* Rendering and export *)

MinRenderSize == 150

Unset   == "unset"
Missing == "missing"

\* a scale argument: 'auto', or the float n/d
Auto     == [auto |-> TRUE, n |-> 1, d |-> 1]
One      == [auto |-> FALSE, n |-> 1, d |-> 1]
Half     == [auto |-> FALSE, n |-> 1, d |-> 2]
Halve(f) == [f EXCEPT !.d = 2 * f.d]

\* int(size * scale_factor)
PixelSize(sz, f) == (sz * f.n) \div f.d

\* Image.new("RGBA", (size, size), color=(0, 0, 0, 0)): nothing is drawn
Image_new(sz) == [size |-> <<sz, sz>>, ink |-> {}]

\* Image.getbbox(): None when no pixel is set, else (left, upper, right, lower)
getbbox(image) ==
  IF image.ink = {} THEN None
  ELSE << Min({q[1] : q \in image.ink}), Min({q[2] : q \in image.ink}),
          Max({q[1] : q \in image.ink}) + 1, Max({q[2] : q \in image.ink}) + 1 >>

\* scale_font for a scale other than 'auto' (lines 96-105, 127-128); wh is
\* what draw.textsize measures for the glyph at the font's pixel size.
scale_font(icons, icon, sz, sc, wh) ==
  LET scale_factor == sc
      image == Image_new(sz)
      fnt == PixelSize(sz, scale_factor)
  IN  IF icon \notin DictKeys(icons)
      THEN [err |-> "KeyError", line |-> 105]
      ELSE [err |-> None, font |-> fnt, width |-> wh[1], height |-> wh[2],
            bbox |-> getbbox(image)]

Raised(f, e, ln, rs, b, b2) ==
  [err |-> e, line |-> ln, fs |-> f, render_size |-> rs,
   bbox |-> b, bbox2 |-> b2, image |-> None]

\* os.makedirs(export_dir)
makedirs(f, export_dir) == [f EXCEPT !.dirs = @ \cup {export_dir}]

\* Variant of export_icon_with_wrapper that makes sure the export directory
\* exists before it renders instead of after.
export_icon_with_wrapper_dir_first(icons, f, icon, sz, wrapper_icon, sc, filename, export_dir, wh, wh2) ==
  IF wrapper_icon = Missing
  THEN Raised(f, "TypeError", 217, Unset, Unset, Unset)
  ELSE
  LET f1 == makedirs(f, export_dir)
      full_scale == IF sc = Auto THEN One ELSE sc
      scale_factor == Halve(full_scale)
      r  == scale_font(icons, icon, sz, scale_factor, wh)
      r2 == scale_font(icons, wrapper_icon, sz, full_scale, wh2)
  IN  IF r.err # None THEN Raised(f1, r.err, r.line, sz, Unset, Unset)
      ELSE IF r2.err # None THEN Raised(f1, r2.err, r2.line, sz, r.bbox, Unset)
      ELSE IF r.bbox = None THEN Raised(f1, "TypeError", 265, sz, r.bbox, r2.bbox)
      ELSE Raised(f1, "NameError", 273, sz, r.bbox, r2.bbox)

\* export_icon_with_wrapper (lines 235-285).  wrapper_icon = Missing is a
\* call that does not pass the required argument.  Line 273 reads org_size,
\* which the method never assigns, so nothing after it runs.
export_icon_with_wrapper(icons, f, icon, sz, wrapper_icon, sc, filename, export_dir, wh, wh2) ==
  IF wrapper_icon = Missing
  THEN Raised(f, "TypeError", 217, Unset, Unset, Unset)
  ELSE
  LET full_scale == IF sc = Auto THEN One ELSE sc
      scale_factor == Halve(full_scale)
      r  == scale_font(icons, icon, sz, scale_factor, wh)
      r2 == scale_font(icons, wrapper_icon, sz, full_scale, wh2)
  IN  IF r.err # None THEN Raised(f, r.err, r.line, sz, Unset, Unset)
      ELSE IF r2.err # None THEN Raised(f, r2.err, r2.line, sz, r.bbox, Unset)
      ELSE IF r.bbox = None THEN Raised(f, "TypeError", 265, sz, r.bbox, r2.bbox)
      ELSE Raised(f, "NameError", 273, sz, r.bbox, r2.bbox)

\* export_icon (lines 148-155)
export_icon(icons, f, icon, sz, sc, filename, export_dir, wrapper_icon, wh, wh2) ==
  IF wrapper_icon = <<>>
  THEN export_icon_with_wrapper(icons, f, icon, sz, Missing, sc, filename,
                                export_dir, wh, wh2)
  ELSE export_icon_with_wrapper(icons, f, icon, sz, wrapper_icon, sc,
                                filename, export_dir, wh, wh2)

\* export_icon_no_wrapper (lines 174-215): line 177 reads the name ttf,
\* which is not defined, before scale_font is called.
export_icon_no_wrapper(icons, f, icon, sz, sc, filename, export_dir) ==
  LET org_size == sz
      size1 == IF sz > MinRenderSize THEN sz ELSE MinRenderSize
  IN  Raised(f, "NameError", 177, size1, Unset, Unset)

-----------------------------------------------------------------------------
(* The object and its callers *)

Example1 ==
  << [selector |-> IconSelector(<<"a">>),
      declarations |-> <<[name |-> "content", value |-> ContentF2]>>] >>

BadSheet ==
  << [selector |-> IconSelector(<<"a">>),
      declarations |-> <<[name |-> "content", value |-> ContentBad]>>] >>

SampleSheets == {ExampleSheet, Example1, BadSheet}

UnknownName == <<"n", "o", "p", "e">>
DotPng      == <<".", "p", "n", "g">>

Sizes      == {10, 150, 200}
Scales     == {Auto, Half}
\* the empty filename stands for None as well ("if not filename")
Filenames  == {<<>>, <<"o">> \o DotPng}
Dirs       == {"exported"}
TextSizes  == {<<9, 7>>}

InitialFS ==
  { NoFiles,
    [dirs |-> {"exported"}, files |-> {}],
    [dirs |-> {"exported"},
     files |-> {[dir |-> "exported", name |-> <<"o">> \o DotPng,
                 size |-> <<150, 150>>]}] }

\* the record of a finished call
CallRecord(op, icon, sz, sc, filename, export_dir, wrapper_icon, r) ==
  [op |-> op, icon |-> icon, size |-> sz, scale |-> sc,
   filename |-> filename, export_dir |-> export_dir,
   wrapper_icon |-> wrapper_icon, fs_before |-> fs,
   err |-> r.err, line |-> r.line, render_size |-> r.render_size,
   bbox |-> r.bbox, bbox2 |-> r.bbox2, image |-> r.image]

\* Variant of ExportReturn in which a call that raised KeyError also
\* forgets the table it looked the icon up in.
ExportReturn_clearing(op, icon, sz, sc, filename, export_dir, wrapper_icon, r) ==
  /\ call' = CallRecord(op, icon, sz, sc, filename, export_dir, wrapper_icon, r)
  /\ fs' = r.fs
  /\ css_icons' = IF r.err = "KeyError" THEN <<>> ELSE css_icons
  /\ UNCHANGED <<css_file, ttf_file, keep_prefix, common_prefix, obj, scalevars>>

\* what a finished call leaves behind: the exports assign no field of self
ExportReturn(op, icon, sz, sc, filename, export_dir, wrapper_icon, r) ==
  /\ call' = CallRecord(op, icon, sz, sc, filename, export_dir, wrapper_icon, r)
  /\ fs' = r.fs
  /\ UNCHANGED <<objvars, scalevars>>

IconArgs == DictKeys(css_icons) \cup {UnknownName}

CallExportIcon ==
  /\ obj = "constructed"
  /\ \E icon \in IconArgs, sz \in Sizes, sc \in Scales, filename \in Filenames,
        export_dir \in Dirs, wrapper_icon \in IconArgs \cup {<<>>},
        wh \in TextSizes, wh2 \in TextSizes :
       ExportReturn("export_icon", icon, sz, sc, filename, export_dir,
                    wrapper_icon,
                    export_icon(css_icons, fs, icon, sz, sc, filename,
                                export_dir, wrapper_icon, wh, wh2))

CallExportIconNoWrapper ==
  /\ obj = "constructed"
  /\ \E icon \in IconArgs, sz \in Sizes, sc \in Scales, filename \in Filenames,
        export_dir \in Dirs :
       ExportReturn("export_icon_no_wrapper", icon, sz, sc, filename,
                    export_dir, Unset,
                    export_icon_no_wrapper(css_icons, fs, icon, sz, sc,
                                           filename, export_dir))

CallExportIconWithWrapper ==
  /\ obj = "constructed"
  /\ \E icon \in IconArgs, sz \in Sizes, sc \in Scales, filename \in Filenames,
        export_dir \in Dirs, wrapper_icon \in IconArgs \cup {<<>>},
        wh \in TextSizes, wh2 \in TextSizes :
       ExportReturn("export_icon_with_wrapper", icon, sz, sc, filename,
                    export_dir, wrapper_icon,
                    export_icon_with_wrapper(css_icons, fs, icon, sz,
                                             wrapper_icon, sc, filename,
                                             export_dir, wh, wh2))

Init ==
  /\ css_file \in SampleSheets
  /\ ttf_file \in Fonts
  /\ keep_prefix \in BOOLEAN
  /\ css_icons = None
  /\ common_prefix = None
  /\ obj = "new"
  /\ fs \in InitialFS
  /\ call = IdleCall
  /\ IdleScale

Next ==
  \/ IconFont_init
  \/ CallExportIcon
  \/ CallExportIconNoWrapper
  \/ CallExportIconWithWrapper

Spec == Init /\ [][Next]_vars

-----------------------------------------------------------------------------
(* Properties of the export calls *)

Finished == call.op # None

KnownIcon(name) == name \in DictKeys(css_icons)

\* the path an export writes: <export_dir>/<filename or icon + '.png'>
TargetName == IF call.filename = <<>> THEN call.icon \o DotPng ELSE call.filename

FilesAtTarget(f) ==
  {x \in f.files : x.dir = call.export_dir /\ x.name = TargetName}

SingleIconCall ==
  /\ Finished
  /\ call.op = "export_icon"
  /\ call.wrapper_icon = <<>>
  /\ KnownIcon(call.icon)
  /\ DictGet(css_icons, call.icon) \in ttf_file

\* C1: export_icon without a wrapper icon, for an icon of the table whose
\* glyph has visible ink, completes and leaves exactly one PNG written, at
\* <export_dir>/<filename or icon.png>, with export_dir created.
C1_SingleExportWritesOneFile ==
  SingleIconCall =>
     /\ call.err = None
     /\ call.export_dir \in fs.dirs
     /\ Cardinality(FilesAtTarget(fs)) = 1
     /\ \A x \in fs.files : x \in call.fs_before.files \/ x \in FilesAtTarget(fs)

UnknownIconCall ==
  /\ Finished
  /\ \/ ~KnownIcon(call.icon)
     \/ /\ call.op \in {"export_icon", "export_icon_with_wrapper"}
        /\ call.wrapper_icon # <<>>
        /\ ~KnownIcon(call.wrapper_icon)

\* C2: an export call whose icon name or wrapper icon name is not a key of
\* the table fails with the unknown-icon error (KeyError) and leaves the file
\* system as it was: no file written, no directory created.
C2_UnknownIconFailsCleanly ==
  UnknownIconCall => (call.err = "KeyError" /\ fs = call.fs_before)

C4_SmallSizeRendersAt150 ==
  SingleIconCall =>
     /\ call.err = None
     /\ call.render_size = (IF call.size < 150 THEN 150 ELSE call.size)
     /\ \E x \in FilesAtTarget(fs) : x.size = <<call.size, call.size>>

\* C10: in every state after construction, whatever export calls were made,
\* css_icons and common_prefix are the values load_css returned.
C10_TableAndPrefixNeverChange ==
  obj = "constructed" =>
     /\ css_icons = load_css(css_file, keep_prefix).icons
     /\ common_prefix = load_css(css_file, keep_prefix).common_prefix

\* export calls of each kind have run, one of them failing on a lookup
C10_Witness ==
  /\ obj = "constructed"
  /\ Finished
  /\ call.err = "KeyError"
  /\ Len(css_icons) = 2

-----------------------------------------------------------------------------
(* scale_font with scale='auto': the loop of lines 107-125, one iteration   *)
(* per step.  The glyph's measurements are not known in advance: each pixel *)
(* size of each font file gets an arbitrary measurement the first time      *)
(* draw.textsize is asked for it, and keeps it.  factor is held in fixed    *)
(* point, in units of 1/FactorDen; iteration is only read modulo 2 and is   *)
(* kept below MaxIteration with its parity.                                 *)

MaxSize      == 2
MaxDim       == 3
MaxIteration == 6
FactorDen    == 1000

\* square, wide and tall glyph measurements (width, height)
GlyphSizes ==
  {wh \in (0..MaxDim) \X (0..MaxDim) : wh[1] = wh[2] \/ wh[1] = 1 \/ wh[2] = 1}

\* ImageFont.truetype(file, px)
truetype(file, px) == [ttf |-> file, px |-> px]

\* draw.textsize(self.css_icons[icon], font=f) returns wh
textsize(f, wh) ==
  /\ wh \in GlyphSizes
  /\ f \in DOMAIN measured => wh = measured[f]
  /\ measured' = IF f \in DOMAIN measured THEN measured ELSE (f :> wh) @@ measured

\* line 116 for a bound one pixel too loose
NeedsShrink_loose(dim, sz) == dim > sz + 1

\* line 116: if dim > size
NeedsShrink(dim, sz) == dim > sz

\* line 118: int(size * size/dim * factor)
ShrunkSize(sz, dim, fct) == (sz * sz * fct) \div (dim * FactorDen)

\* lines 96-110: the call, up to the first pass of the loop
ScaleFontEnter ==
  /\ pc = "idle"
  /\ \E ttf \in {"self.ttf_file", "other.ttf"}, icon \in IconArgs,
        sz \in 1..MaxSize, sc \in {Auto, One, Half}, wh \in GlyphSizes :
       LET r == scale_font(css_icons, icon, sz, IF sc = Auto THEN One ELSE sc, wh)
       IN  /\ size' = sz
           /\ scale' = sc
           /\ IF r.err # None
              THEN /\ pc' = "raised"
                   /\ font' = truetype(ttf, PixelSize(sz, IF sc = Auto THEN One ELSE sc))
                   /\ UNCHANGED <<width, height, iteration, factor, measured>>
              ELSE /\ font' = truetype(ttf, r.font)
                   /\ textsize(font', wh)
                   /\ width' = r.width
                   /\ height' = r.height
                   /\ IF sc = Auto
                      THEN /\ pc' = "loop"
                           /\ iteration' = 0
                           /\ factor' = FactorDen
                      ELSE /\ pc' = "returned"
                           /\ UNCHANGED <<iteration, factor>>
  /\ UNCHANGED <<objvars, callvars>>

\* lines 111-125, and 127-128 when the loop breaks
ScaleFontLoop ==
  /\ pc = "loop"
  /\ \E wh \in GlyphSizes :
       /\ textsize(font, wh)
       /\ width' = wh[1]
       /\ height' = wh[2]
       /\ LET dim == IF wh[1] > wh[2] THEN wh[1] ELSE wh[2] IN
            IF NeedsShrink(dim, size)
            THEN /\ font' = truetype("self.ttf_file", ShrunkSize(size, dim, factor))
                 /\ iteration' = IF iteration < MaxIteration
                                 THEN iteration + 1 ELSE iteration - 1
                 /\ factor' = IF iteration' % 2 = 0
                              THEN (factor * 99) \div 100 ELSE factor
                 /\ pc' = "loop"
            ELSE /\ pc' = "returned"
                 /\ UNCHANGED <<font, iteration, factor>>
  /\ UNCHANGED <<size, scale, objvars, callvars>>

ScaleInit ==
  /\ css_file = ExampleSheet
  /\ ttf_file = AllInk
  /\ keep_prefix = FALSE
  /\ css_icons = load_css(ExampleSheet, FALSE).icons
  /\ common_prefix = load_css(ExampleSheet, FALSE).common_prefix
  /\ obj = "constructed"
  /\ fs = NoFiles
  /\ call = IdleCall
  /\ IdleScale

ScaleNext == ScaleFontEnter \/ ScaleFontLoop

\* the loop is a sequential program: it takes its next step while it has one
ScaleSpec == ScaleInit /\ [][ScaleNext]_vars /\ WF_vars(ScaleNext)

\* C5: when scale_font returns for scale='auto', the width and height it
\* returns fit the target size, max(width, height) <= size, and are the
\* measurement of the font it returns.
C5_AutoScaleFits ==
  (pc = "returned" /\ scale = Auto) =>
     /\ width <= size /\ height <= size
     /\ font \in DOMAIN measured
     /\ <<width, height>> = measured[font]

\* the loop shrank the font at least twice before the glyph fitted
C5_Witness ==
  /\ pc = "returned" /\ scale = Auto
  /\ iteration >= 2
  /\ font.px < size

\* C6: the auto-scale loop always ends, returning a fitting size or
\* aborting; it never iterates forever.
C6_AutoScaleTerminates == <>(pc \in {"returned", "raised"})

====
